---- MODULE Spec2Model ----
(***************************************************************************)
(* Model of the InfluxDB (v1) storage backend for zenoh: src/v1/src/lib.rs *)
(*                                                                         *)
(* The state is the content of the storage's InfluxDB database (a set of   *)
(* points), the batching pipeline (channel, worker, accumulated batch),    *)
(* the detached measurement-drop tasks, and the time (in milliseconds)     *)
(* each pending timer has been running for.                                *)
(* Storage calls (put, delete) run one at a time (&mut self); the batch    *)
(* worker and the drop tasks are separate tokio tasks that interleave with *)
(* them at their await points.                                             *)
(***************************************************************************)
EXTENDS Integers, Sequences, FiniteSets, TLC

VARIABLES
    db,               \* the points stored in the storage's InfluxDB database
    put_batch_size,   \* Option<usize>: <<>> is None, <<n>> is Some(n)
    put_batch_timeout,\* milliseconds
    channel,          \* the unbounded mpsc channel of Put items (tx -> rx)
    put_batch,        \* the worker's Vec<InfluxWQuery>
    batch_elapsed,    \* batch_start_time.elapsed(), in ms
    poll_elapsed,     \* ms spent in the worker's current 100 ms timeout
    tasks,            \* the spawned async_drop tasks, in spawn order
    ncalls,           \* number of storage calls made so far
    last,             \* the last storage call and what it did
    storage,          \* the InfluxDbStorage instance: "alive", "closing"
                      \* (Drop::drop has run) or "dropped" (its fields too)
    worker,           \* the batch_future task: "none", "running" or "exited"
    call              \* the last call of a helper function made on its own:
                      \* its name, its argument and what it returned

vars == <<db, put_batch_size, put_batch_timeout, channel, put_batch,
          batch_elapsed, poll_elapsed, tasks, ncalls, last, storage, worker,
          call>>

---------------------------------------------------------------------------
(* Bounds of the model *)

MaxCalls == 2
MaxTime == 2
MaxNameLen == 5
MaxPuts == 3

(* Program constants *)

DROP_MEASUREMENT_TIMEOUT_MS == 5000
POLL_TIMEOUT_MS == 100

NONE_KEY == "@@none_key@@"

(* Inputs *)

None == <<>>
Some(x) == <<x>>

Ok(x) == [ok |-> TRUE, v |-> x]

NodeIds == {1, 2}
Keys == {Some("a/b")}

\* Encoding: an id and a schema ("" when it has none)
Encoding(id, schema) == [id |-> id, schema |-> schema]
DefaultEncoding == Encoding(0, "")

\* Value: a payload and an encoding. A payload is a string of bytes; the
\* payloads whose first byte is written "#" are not valid UTF-8.
Value(payload, encoding) == [payload |-> payload, encoding |-> encoding]
EmptyValue == Value("", DefaultEncoding)

Values == {Value("v1", DefaultEncoding), Value("v2", DefaultEncoding)}
Timestamps == [time : 1..MaxTime, id : NodeIds]
BatchSizes == {None, Some(1), Some(2)}
BatchTimeouts == {100}

---------------------------------------------------------------------------
(* uhlc Timestamp: ordered by time, then by the id of the node *)

TsLess(a, b) == a.time < b.time \/ (a.time = b.time /\ a.id < b.id)

TsLeq(a, b) == a = b \/ TsLess(a, b)

\* timestamp.to_string() and its inverse, str::parse::<Timestamp>()
TimestampToString(ts) == <<ts.time, ts.id>>

ParseTimestamp(s) == [time |-> s[1], id |-> s[2]]

\* timestamp.get_time().to_duration().as_nanos(): the id is not part of it
InfluxTime(ts) == ts.time

\* key.unwrap_or_else(|| OwnedKeyExpr::from_str(NONE_KEY).unwrap())
MeasurementOf(key) == IF key = None THEN NONE_KEY ELSE key[1]

---------------------------------------------------------------------------
(* Values and Timestamps as put stores them and get reads them back *)

IsUtf8(payload) == payload = "" \/ Head(payload) # "#"

\* value.payload().deserialize::<String>(): the string, or the error
deserialize_string(payload) ==
    IF IsUtf8(payload) THEN Ok(payload)
    ELSE [ok |-> FALSE, v |-> "invalid utf-8 sequence"]

\* b64_std_engine.encode(bytes) and b64_std_engine.decode(string)
b64_encode(bytes) == "b64:" \o bytes

b64_decode(string) ==
    IF Len(string) >= Len("b64:") /\ SubSeq(string, 1, Len("b64:")) = "b64:"
    THEN Ok(SubSeq(string, Len("b64:") + 1, Len(string)))
    ELSE [ok |-> FALSE, v |-> ""]

\* the names of the encoding ids 0 and 1
EncodingNames == <<"zenoh/bytes", "zenoh/string">>

\* encoding.to_string(): the name of the id, then ";" and the schema if any
encoding_to_string(encoding) ==
    EncodingNames[encoding.id + 1]
        \o (IF encoding.schema = "" THEN "" ELSE ";" \o encoding.schema)

\* Encoding::from(string): the id whose name the string starts with and the
\* schema after ";"; a string that starts with no known name is the schema
\* of an encoding of id 0
encoding_from(string) ==
    LET semis == {i \in 1..Len(string) : SubSeq(string, i, i) = ";"}
        cut == IF semis = {} THEN Len(string) + 1
               ELSE CHOOSE i \in semis : \A j \in semis : i <= j
        name == SubSeq(string, 1, cut - 1)
        schema == SubSeq(string, cut + 1, Len(string))
        ids == {id \in 0..(Len(EncodingNames) - 1) : EncodingNames[id + 1] = name}
    IN  IF ids = {} THEN Encoding(0, string)
        ELSE Encoding(CHOOSE id \in ids : TRUE, schema)

\* Timestamp::from_str(string): a stored timestamp that is not the string of
\* a Timestamp does not parse
timestamp_from_str(string) ==
    IF Len(string) = 2 THEN Ok(ParseTimestamp(string))
    ELSE [ok |-> FALSE, v |-> ParseTimestamp(<<0, 0>>)]

\* (base64, strvalue) of put: the payload as a string, or, for a payload
\* that is not UTF-8, the base64 of the text of the conversion error
StrValue(value) ==
    LET s == deserialize_string(value.payload)
    IN  IF s.ok THEN [base64 |-> FALSE, value |-> s.v]
        ELSE [base64 |-> TRUE, value |-> b64_encode(s.v)]

---------------------------------------------------------------------------
(* The InfluxDB statements the storage issues *)

\* A point is identified by its measurement, tag set (kind) and time: writing
\* a point replaces the fields of the point with the same identity.
SamePoint(p, q) == p.m = q.m /\ p.kind = q.kind /\ p.time = q.time

WritePoint(d, p) == {q \in d : ~SamePoint(p, q)} \cup {p}

\* faulty variant: the points of a query are applied last to first
RECURSIVE WritePoints_Reversed(_, _)
WritePoints_Reversed(d, qs) ==
    IF qs = <<>> THEN d
    ELSE WritePoint(WritePoints_Reversed(d, Tail(qs)), Head(qs))

RECURSIVE WritePoints(_, _)
WritePoints(d, qs) ==
    IF qs = <<>> THEN d ELSE WritePoints(WritePoint(d, Head(qs)), Tail(qs))

\* InfluxWQuery of put: tag kind=PUT, fields timestamp, encoding_prefix,
\* encoding_suffix, base64 and value
PutQuery(measurement, value, timestamp) ==
    [m |-> measurement, kind |-> "PUT", time |-> InfluxTime(timestamp),
     timestamp |-> TimestampToString(timestamp),
     encoding_prefix |-> value.encoding.id,
     encoding_suffix |-> encoding_to_string(value.encoding),
     base64 |-> StrValue(value).base64,
     value |-> StrValue(value).value]

\* InfluxWQuery of delete: tag kind=DEL, field timestamp, no encoding and an
\* empty value
DelQuery(measurement, timestamp) ==
    [m |-> measurement, kind |-> "DEL", time |-> InfluxTime(timestamp),
     timestamp |-> TimestampToString(timestamp),
     encoding_prefix |-> 0, encoding_suffix |-> "", base64 |-> FALSE,
     value |-> ""]

\* DELETE FROM "measurement" WHERE time < influx_time
DeleteOlder(d, measurement, influx_time) ==
    {p \in d : ~(p.m = measurement /\ p.time < influx_time)}

\* DROP MEASUREMENT "measurement"
DropMeasurement(d, measurement) == {p \in d : p.m # measurement}

\* faulty variant: the query filters on a tag value that no point carries
get_deletion_timestamp_WrongTag(d, measurement) ==
    LET dels == {p \in d : p.m = measurement /\ p.kind = "DELETE"}
    IN  IF dels = {} THEN None
        ELSE LET p == CHOOSE x \in dels : \A y \in dels : y.time <= x.time
             IN  Some(ParseTimestamp(p.timestamp))

\* SELECT "timestamp" FROM "measurement" WHERE kind='DEL' ORDER BY time DESC LIMIT 1
get_deletion_timestamp(d, measurement) ==
    LET dels == {p \in d : p.m = measurement /\ p.kind = "DEL"}
    IN  IF dels = {} THEN None
        ELSE LET p == CHOOSE x \in dels : \A y \in dels : y.time <= x.time
             IN  Some(ParseTimestamp(p.timestamp))

\* faulty variant: the comparison is reversed
Stale_Reversed(timestamp, del) == del # None /\ TsLess(del[1], timestamp)

\* faulty variant: a sample as old as the deletion is ignored too
Stale_Inclusive(timestamp, del) == del # None /\ TsLeq(timestamp, del[1])

\* put: "ignore sample if oldest than the deletion"
Stale(timestamp, del) == del # None /\ TsLess(timestamp, del[1])

\* SELECT "kind" FROM "measurement" WHERE kind!='DEL' LIMIT 1 returns a series
HasNonDel(d, measurement) == \E p \in d : p.m = measurement /\ p.kind # "DEL"

---------------------------------------------------------------------------
(* Series names and key expressions, as strings *)

NameAlphabet == {"a", "b", "/", "*"}

RECURSIVE Strings(_, _)
Strings(alphabet, n) ==
    IF n = 0 THEN {""}
    ELSE LET shorter == Strings(alphabet, n - 1)
         IN  shorter \cup {s \o c : s \in shorter, c \in alphabet}

\* the names a series of the database can have
SerieNames == Strings(NameAlphabet, MaxNameLen) \cup {NONE_KEY}

\* s.split('/')
RECURSIVE Split(_)
Split(s) ==
    LET slashes == {i \in 1..Len(s) : SubSeq(s, i, i) = "/"}
    IN  IF slashes = {} THEN <<s>>
        ELSE LET i == CHOOSE j \in slashes : \A k \in slashes : j <= k
             IN  <<SubSeq(s, 1, i - 1)>> \o Split(SubSeq(s, i + 1, Len(s)))

\* OwnedKeyExpr::from_str(s).is_ok(): s is a key expression in canon form:
\* no empty chunk, '*' only in the chunks "*" and "**", and "**" followed
\* by neither "**" nor "*"
IsKeyExpr(s) ==
    LET chunks == Split(s)
    IN  /\ \A i \in DOMAIN chunks :
              /\ chunks[i] # ""
              /\ \/ chunks[i] \in {"*", "**"}
                 \/ \A j \in 1..Len(chunks[i]) : SubSeq(chunks[i], j, j) # "*"
        /\ \A i \in DOMAIN chunks :
              (chunks[i] = "**" /\ i < Len(chunks)) => chunks[i + 1] \notin {"*", "**"}

KeyExprs == {s \in SerieNames : IsKeyExpr(s)}

\* the keys of single resources: key expressions without wildcard
KeyNames == {s \in KeyExprs : \A j \in 1..Len(s) : SubSeq(s, j, j) # "*"}

\* the keys put and delete can be called with: Option<OwnedKeyExpr>
StorageKeys == {None} \cup {Some(s) : s \in KeyExprs}

\* faulty variant: the reserved name is decoded as any other name
keyexpr_from_serie_NoSentinel(serie_name) ==
    IF IsKeyExpr(serie_name) THEN Ok(Some(serie_name))
    ELSE [ok |-> FALSE, v |-> None]

\* keyexpr_from_serie: Ok(None), Ok(Some(key)) or Err
keyexpr_from_serie(serie_name) ==
    IF serie_name = NONE_KEY
    THEN Ok(None)
    ELSE IF IsKeyExpr(serie_name) THEN Ok(Some(serie_name))
    ELSE [ok |-> FALSE, v |-> None]

\* the loop over the chars of one path expression
RECURSIVE RegexOfChars(_)
RegexOfChars(chars) ==
    IF chars = "" THEN ""
    ELSE LET c == Head(chars)
             rest == Tail(chars)
         IN  IF c = "*"
             THEN IF rest # ""
                  THEN IF Head(rest) = "*"
                       THEN ".*" \o RegexOfChars(Tail(rest))
                       ELSE ".*" \o RegexOfChars(rest)
                  ELSE ""
             ELSE IF c = "/" THEN "\\/" \o RegexOfChars(rest)
             ELSE c \o RegexOfChars(rest)

\* the loop over the path expressions, joined with '|'
RECURSIVE RegexOfExprs(_, _)
RegexOfExprs(path_exprs, i) ==
    IF i > Len(path_exprs) THEN ""
    ELSE (IF i # 1 THEN "|" ELSE "") \o RegexOfChars(path_exprs[i])
         \o RegexOfExprs(path_exprs, i + 1)

key_exprs_to_influx_regex(path_exprs) ==
    "/^" \o RegexOfExprs(path_exprs, 1) \o "$/"

\* whether the whole text matches a pattern made of ".*", "\/", "." (any
\* character) and plain characters
RECURSIVE MatchHere(_, _)
MatchHere(pat, text) ==
    IF pat = "" THEN text = ""
    ELSE IF Len(pat) >= 2 /\ SubSeq(pat, 1, 2) = ".*"
    THEN \E k \in 0..Len(text) :
            MatchHere(SubSeq(pat, 3, Len(pat)), SubSeq(text, k + 1, Len(text)))
    ELSE IF Len(pat) >= 2 /\ SubSeq(pat, 1, 2) = "\\/"
    THEN /\ text # ""
         /\ Head(text) = "/"
         /\ MatchHere(SubSeq(pat, 3, Len(pat)), Tail(text))
    ELSE /\ text # ""
         /\ Head(pat) = "." \/ Head(text) = Head(pat)
         /\ MatchHere(Tail(pat), Tail(text))

\* FROM /^...$/ of the backend, for the regex of one path expression (get
\* and INFLUX_REGEX_ALL pass one): the measurement name matches it
RegexMatches(regex, name) ==
    MatchHere(SubSeq(regex, Len("/^") + 1, Len(regex) - Len("$/")), name)

---------------------------------------------------------------------------
(* get *)

\* TimeExpr: Fixed(t), t a time in the unit of the points' times, or
\* Now { offset_secs }
TimeExprs == [e : {"Fixed"}, v : 1..MaxTime] \cup [e : {"Now"}, v : {-1, 0}]

\* TimeBound: Inclusive(t), Exclusive(t) or Unbounded
UnboundedBound == [b |-> "Unbounded", t |-> [e |-> "Now", v |-> 0]]

TimeBounds == {UnboundedBound} \cup [b : {"Inclusive", "Exclusive"}, t : TimeExprs]

\* what TimeRange::from_str(p) returns for a parameter string p: an Err, or
\* Ok(TimeRange(start, stop))
ParseError == [ok |-> FALSE, start |-> UnboundedBound, stop |-> UnboundedBound]

ParsedRanges == {ParseError} \cup [ok : {TRUE}, start : TimeBounds, stop : TimeBounds]

\* the parameters get is called with: unparsable ones and "[..]"
TimeRanges ==
    {ParseError, [ok |-> TRUE, start |-> UnboundedBound, stop |-> UnboundedBound]}

\* humantime::format_rfc3339 of a time of the first seconds after the epoch
format_rfc3339(t) == "1970-01-01T00:00:0" \o ToString(t) \o "Z"

\* write!(s, "'{}'", format_rfc3339(t)) and write!(s, "now(){offset_secs:+}s")
write_timeexpr(s, t) ==
    IF t.e = "Fixed"
    THEN s \o "'" \o format_rfc3339(t.v) \o "'"
    ELSE s \o "now()" \o (IF t.v >= 0 THEN "+" \o ToString(t.v)
                                      ELSE "-" \o ToString(-t.v)) \o "s"

\* faulty variant: no kind filter when the parameters do not parse
clauses_from_parameters_NoFilter(time_range) ==
    IF time_range.ok
    THEN Ok("WHERE kind!='DEL'")
    ELSE Ok("WHERE time > 0 ORDER BY time DESC LIMIT 1")

\* faulty variant: inclusive and exclusive bounds are exchanged
clauses_from_parameters_Swapped(time_range) ==
    LET start == time_range.start
        stop == time_range.stop
        s0 == "WHERE kind!='DEL'"
        s1 == IF start.b = "Inclusive"
              THEN write_timeexpr(s0 \o " AND time > ", start.t)
              ELSE IF start.b = "Exclusive"
              THEN write_timeexpr(s0 \o " AND time >= ", start.t)
              ELSE s0
        s2 == IF stop.b = "Inclusive"
              THEN write_timeexpr(s1 \o " AND time < ", stop.t)
              ELSE IF stop.b = "Exclusive"
              THEN write_timeexpr(s1 \o " AND time <= ", stop.t)
              ELSE s1
    IN  IF time_range.ok THEN Ok(s2)
        ELSE Ok(s0 \o " ORDER BY time DESC LIMIT 1")

\* clauses_from_parameters(p), given time_range = TimeRange::from_str(p)
clauses_from_parameters(time_range) ==
    LET start == time_range.start
        stop == time_range.stop
        s0 == "WHERE kind!='DEL'"
        s1 == IF start.b = "Inclusive"
              THEN write_timeexpr(s0 \o " AND time >= ", start.t)
              ELSE IF start.b = "Exclusive"
              THEN write_timeexpr(s0 \o " AND time > ", start.t)
              ELSE s0
        s2 == IF stop.b = "Inclusive"
              THEN write_timeexpr(s1 \o " AND time <= ", stop.t)
              ELSE IF stop.b = "Exclusive"
              THEN write_timeexpr(s1 \o " AND time < ", stop.t)
              ELSE s1
    IN  IF time_range.ok THEN Ok(s2)
        ELSE Ok(s0 \o " ORDER BY time DESC LIMIT 1")

\* The backend's reading of the clauses. A clause string restricts the kind
\* when it starts with the kind filter, and asks for the latest point only
\* of each measurement when it ends with ORDER BY time DESC LIMIT 1.
KindFilter(clauses) ==
    SubSeq(clauses, 1, Len("WHERE kind!='DEL'")) = "WHERE kind!='DEL'"

LatestOnly(clauses) ==
    LET tail == " ORDER BY time DESC LIMIT 1"
    IN  /\ Len(clauses) >= Len(tail)
        /\ SubSeq(clauses, Len(clauses) - Len(tail) + 1, Len(clauses)) = tail

\* the backend's now() is later than the time of every point written
TimeOf(t) == IF t.e = "Fixed" THEN t.v ELSE MaxTime + 1 + t.v

\* the time comparisons the clauses of a time range spell
InTimeRange(time, time_range) ==
    /\ time_range.start.b = "Inclusive" => time >= TimeOf(time_range.start.t)
    /\ time_range.start.b = "Exclusive" => time > TimeOf(time_range.start.t)
    /\ time_range.stop.b = "Inclusive" => time <= TimeOf(time_range.stop.t)
    /\ time_range.stop.b = "Exclusive" => time < TimeOf(time_range.stop.t)

\* SELECT * FROM {regex} {clauses}, as the backend answers it: the points of
\* the measurements whose name matches the regex built from the key
SelectPoints(d, measurement, tr) ==
    LET clauses == clauses_from_parameters(tr).v
        regex == key_exprs_to_influx_regex(<<measurement>>)
        selected == {p \in d : /\ RegexMatches(regex, p.m)
                               /\ KindFilter(clauses) => p.kind # "DEL"
                               /\ InTimeRange(p.time, tr)}
    IN  IF LatestOnly(clauses)
        THEN {p \in selected :
                 \A q \in selected : q.m = p.m => q.time <= p.time}
        ELSE selected

\* the Encoding get gives to a point
EncodingOf(zpoint) ==
    IF zpoint.encoding_suffix = ""
    THEN Encoding(zpoint.encoding_prefix, "")
    ELSE encoding_from(zpoint.encoding_suffix)

\* the payload get gives to a point, or the failure to decode its base64
PayloadOf(zpoint) ==
    IF zpoint.base64 THEN b64_decode(zpoint.value) ELSE Ok(zpoint.value)

\* whether get pushes a StoredData for the point: the name of its series is
\* a key, its payload and its timestamp decode; the point is skipped
\* otherwise
Replied(zpoint) ==
    /\ keyexpr_from_serie(zpoint.m).ok
    /\ PayloadOf(zpoint).ok
    /\ timestamp_from_str(zpoint.timestamp).ok

StoredData(zpoint) ==
    [value |-> Value(PayloadOf(zpoint).v, EncodingOf(zpoint)),
     timestamp |-> timestamp_from_str(zpoint.timestamp).v]

\* faulty variant: one point that cannot be decoded empties the result
get_AllOrNothing(d, key, tr) ==
    LET rows == SelectPoints(d, MeasurementOf(key), tr)
    IN  IF \A q \in rows : Replied(q) THEN {StoredData(p) : p \in rows} ELSE {}

\* the StoredData returned by get(key, parameters) when the query succeeds
\* and its result is parsed
get(d, key, tr) ==
    {StoredData(p) : p \in {q \in SelectPoints(d, MeasurementOf(key), tr) :
                                Replied(q)}}

---------------------------------------------------------------------------
\* a statement sent to the backend by a storage call, and whether it succeeded
Stmt(q, ok) == [q |-> q, ok |-> ok]

NoCall == [op |-> "none", key |-> None, timestamp |-> [time |-> 0, id |-> 0],
           value |-> EmptyValue, res |-> "none", stmts |-> <<>>, sent |-> 0,
           spawned |-> 0]

NoHelperCall == [fn |-> "none"]

TypeOK ==
    /\ put_batch_size \in BatchSizes
    /\ put_batch_timeout \in BatchTimeouts
    /\ ncalls \in 0..MaxCalls
    /\ batch_elapsed \in 0..(put_batch_timeout + POLL_TIMEOUT_MS)
    /\ poll_elapsed \in 0..POLL_TIMEOUT_MS
    /\ \A i \in DOMAIN tasks : tasks[i].elapsed \in 0..DROP_MEASUREMENT_TIMEOUT_MS

Init ==
    /\ db = {}
    /\ put_batch_size \in BatchSizes
    /\ put_batch_timeout \in BatchTimeouts
    /\ channel = <<>>
    /\ put_batch = <<>>
    /\ batch_elapsed = 0
    /\ poll_elapsed = 0
    /\ tasks = <<>>
    /\ ncalls = 0
    /\ last = NoCall
    /\ storage = "alive"
    /\ worker = IF put_batch_size = None THEN "none" ELSE "running"
    /\ call = NoHelperCall

---------------------------------------------------------------------------
(* Storage::put *)

\* faulty variant: the result of the unbatched write is not looked at
PutOutcome_IgnoreWriteError(d, key, value, timestamp, selErr, wrErr) ==
    LET measurement == MeasurementOf(key)
        del == get_deletion_timestamp(d, measurement)
        query == PutQuery(measurement, value, timestamp)
    IN  IF selErr
        THEN [db |-> d, channel |-> channel, res |-> "Error",
              stmts |-> <<Stmt("SELECT_DEL", FALSE)>>, sent |-> 0]
        ELSE IF Stale(timestamp, del)
        THEN [db |-> d, channel |-> channel, res |-> "Outdated",
              stmts |-> <<Stmt("SELECT_DEL", TRUE)>>, sent |-> 0]
        ELSE IF put_batch_size = None
        THEN [db |-> IF wrErr THEN d ELSE WritePoint(d, query),
              channel |-> channel,
              res |-> "Inserted",
              stmts |-> <<Stmt("SELECT_DEL", TRUE), Stmt("WRITE_PUT", ~wrErr)>>,
              sent |-> 0]
        ELSE [db |-> d,
              channel |-> Append(channel, query),
              res |-> "Inserted",
              stmts |-> <<Stmt("SELECT_DEL", TRUE)>>,
              sent |-> 1]

\* What one call of put does on database content d, given whether the SELECT
\* of get_deletion_timestamp fails (selErr) and whether the write fails (wrErr).
PutOutcome(d, key, value, timestamp, selErr, wrErr) ==
    LET measurement == MeasurementOf(key)
        del == get_deletion_timestamp(d, measurement)
        query == PutQuery(measurement, value, timestamp)
    IN  IF selErr
        THEN [db |-> d, channel |-> channel, res |-> "Error",
              stmts |-> <<Stmt("SELECT_DEL", FALSE)>>, sent |-> 0]
        ELSE IF Stale(timestamp, del)
        THEN [db |-> d, channel |-> channel, res |-> "Outdated",
              stmts |-> <<Stmt("SELECT_DEL", TRUE)>>, sent |-> 0]
        ELSE IF put_batch_size = None
        THEN [db |-> IF wrErr THEN d ELSE WritePoint(d, query),
              channel |-> channel,
              res |-> IF wrErr THEN "Error" ELSE "Inserted",
              stmts |-> <<Stmt("SELECT_DEL", TRUE), Stmt("WRITE_PUT", ~wrErr)>>,
              sent |-> 0]
        ELSE IF worker = "exited"
        THEN [db |-> d, channel |-> channel, res |-> "Error",
              stmts |-> <<Stmt("SELECT_DEL", TRUE)>>, sent |-> 0]
        ELSE [db |-> d,
              channel |-> Append(channel, query),
              res |-> "Inserted",
              stmts |-> <<Stmt("SELECT_DEL", TRUE)>>,
              sent |-> 1]

\* bookkeeping for the properties: note, in the tasks spawned by a delete
\* of the measurement, that a put newer than that delete has returned Inserted
NoteNewer(measurement, timestamp) ==
    [i \in DOMAIN tasks |->
        IF tasks[i].m = measurement /\ TsLess(tasks[i].timestamp, timestamp)
        THEN [tasks[i] EXCEPT !.newer = TRUE]
        ELSE tasks[i]]

\* a call of put, the limit-th call of the storage at most
PutCall(limit, key, value, timestamp, selErr, wrErr) ==
    LET o == PutOutcome(db, key, value, timestamp, selErr, wrErr)
    IN  /\ storage = "alive"
        /\ ncalls < limit
        /\ db' = o.db
        /\ channel' = o.channel
        /\ ncalls' = ncalls + 1
        /\ last' = [op |-> "put", key |-> key, timestamp |-> timestamp,
                    value |-> value, res |-> o.res, stmts |-> o.stmts,
                    sent |-> o.sent, spawned |-> 0]
        /\ tasks' = IF o.res = "Inserted"
                    THEN NoteNewer(MeasurementOf(key), timestamp)
                    ELSE tasks
        /\ UNCHANGED <<call, put_batch_size, put_batch_timeout, put_batch,
                       batch_elapsed, poll_elapsed, storage, worker>>

put(key, value, timestamp, selErr, wrErr) ==
    PutCall(MaxCalls, key, value, timestamp, selErr, wrErr)

---------------------------------------------------------------------------
(* Storage::delete *)

\* the writes for the measurement that are enqueued or accumulated
Pending(measurement) ==
    {i \in DOMAIN (channel \o put_batch) : (channel \o put_batch)[i].m = measurement}

\* schedule_measurement_drop: spawn async_drop, which sleeps first
\* (timestamp, newer and res are bookkeeping for the properties)
schedule_measurement_drop(measurement, timestamp) ==
    Append(tasks, [m |-> measurement, pc |-> "sleep", elapsed |-> 0,
                   timestamp |-> timestamp, newer |-> FALSE,
                   res |-> "pending"])

\* faulty variant: delete does not return when the DELETE statement fails
DeleteOutcome_NoBail(d, key, timestamp, delErr, wrErr) ==
    LET measurement == MeasurementOf(key)
        marked == WritePoint(d, DelQuery(measurement, timestamp))
    IN  IF wrErr
        THEN [db |-> d, tasks |-> tasks, res |-> "Error",
              stmts |-> <<Stmt("DELETE", ~delErr), Stmt("WRITE_DEL", FALSE)>>]
        ELSE [db |-> marked,
              tasks |-> schedule_measurement_drop(measurement, timestamp),
              res |-> "Deleted",
              stmts |-> <<Stmt("DELETE", ~delErr), Stmt("WRITE_DEL", TRUE)>>]

\* What one call of delete does on database content d, given whether the
\* DELETE statement fails (delErr) and whether the write of the DEL point
\* fails (wrErr).
DeleteOutcome(d, key, timestamp, delErr, wrErr) ==
    LET measurement == MeasurementOf(key)
        influx_time == InfluxTime(timestamp)
        deleted == DeleteOlder(d, measurement, influx_time)
        marked == WritePoint(deleted, DelQuery(measurement, timestamp))
    IN  IF delErr
        THEN [db |-> d, tasks |-> tasks, res |-> "Error",
              stmts |-> <<Stmt("DELETE", FALSE)>>]
        ELSE IF wrErr
        THEN [db |-> deleted, tasks |-> tasks, res |-> "Error",
              stmts |-> <<Stmt("DELETE", TRUE), Stmt("WRITE_DEL", FALSE)>>]
        ELSE [db |-> marked,
              tasks |-> schedule_measurement_drop(measurement, timestamp),
              res |-> "Deleted",
              stmts |-> <<Stmt("DELETE", TRUE), Stmt("WRITE_DEL", TRUE)>>]

delete(key, timestamp, delErr, wrErr) ==
    LET o == DeleteOutcome(db, key, timestamp, delErr, wrErr)
    IN  /\ storage = "alive"
        /\ ncalls < MaxCalls
        /\ db' = o.db
        /\ tasks' = o.tasks
        /\ ncalls' = ncalls + 1
        /\ last' = [op |-> "delete", key |-> key, timestamp |-> timestamp,
                    value |-> EmptyValue, res |-> o.res, stmts |-> o.stmts,
                    sent |-> 0, spawned |-> Len(o.tasks) - Len(tasks)]
        /\ UNCHANGED <<call, put_batch_size, put_batch_timeout, channel, put_batch,
                       batch_elapsed, poll_elapsed, storage, worker>>

---------------------------------------------------------------------------
(* drop_measurement, run by a spawned async_drop task after its sleep *)

\* tokio::time::sleep(Duration::from_millis(DROP_MEASUREMENT_TIMEOUT_MS)) is over
Slept(t) == t.elapsed >= DROP_MEASUREMENT_TIMEOUT_MS

\* The emptiness check. outcome: "ok" (query and deserialize_next succeed),
\* "query_err" (json_query fails), "parse_err" (deserialize_next fails).
DropCheck(i, outcome) ==
    LET t == tasks[i]
        next == IF outcome = "query_err" THEN [pc |-> "done", res |-> "check_failed"]
                ELSE IF outcome = "ok" /\ HasNonDel(db, t.m)
                THEN [pc |-> "done", res |-> "kept"]
                ELSE IF outcome = "ok"
                THEN [pc |-> "drop", res |-> "empty"]
                ELSE [pc |-> "drop", res |-> "unchecked"]
    IN  /\ t.pc = "sleep"
        /\ Slept(t)
        /\ tasks' = [tasks EXCEPT ![i].pc = next.pc, ![i].res = next.res]
        /\ UNCHANGED <<call, db, put_batch_size, put_batch_timeout, channel, put_batch,
                       batch_elapsed, poll_elapsed, ncalls, last, storage,
                       worker>>

\* The DROP MEASUREMENT statement
DropStmt(i, err) ==
    LET t == tasks[i]
    IN  /\ t.pc = "drop"
        /\ db' = IF err THEN db ELSE DropMeasurement(db, t.m)
        /\ tasks' = [tasks EXCEPT ![i].pc = "done",
                                  ![i].res = IF err THEN "drop_failed" ELSE "dropped"]
        /\ UNCHANGED <<call, put_batch_size, put_batch_timeout, channel, put_batch,
                       batch_elapsed, poll_elapsed, ncalls, last, storage,
                       worker>>

---------------------------------------------------------------------------
(* batch_future: the worker that sends the enqueued writes in batches *)

\* Drop::drop has executed DROP DATABASE: the database the client writes to
\* does not exist any more, and the backend refuses the writes
DatabaseDropped ==
    /\ last.op = "drop"
    /\ last.on_closure = "DropDb"
    /\ last.res = "Ok"

\* faulty variant: the age of the batch is not looked at
FlushDue_SizeOnly(batch) == Len(batch) >= put_batch_size[1]

\* faulty variant: the batch is sent at the end of every iteration
FlushDue_Always(batch) == TRUE

\* batch_full || batch_timed_out, evaluated after an item or a timeout
FlushDue(batch) ==
    LET batch_full == Len(batch) >= put_batch_size[1]
        batch_timed_out == batch_elapsed > put_batch_timeout
    IN  batch_full \/ batch_timed_out

\* faulty variant: a batch whose backend call fails is kept for a retry
EndOfIteration_Retry(batch, err) ==
    IF FlushDue(batch) /\ ~err /\ ~DatabaseDropped
    THEN /\ db' = WritePoints(db, batch)
         /\ put_batch' = <<>>
         /\ batch_elapsed' = 0
         /\ poll_elapsed' = 0
    ELSE /\ put_batch' = batch
         /\ poll_elapsed' = 0
         /\ UNCHANGED <<db, batch_elapsed>>

\* the end of one iteration of the loop's second branch: flush, or go on
\* accumulating; err tells whether the backend call of the flush fails
EndOfIteration(batch, err) ==
    IF FlushDue(batch)
    THEN /\ db' = IF err \/ DatabaseDropped THEN db ELSE WritePoints(db, batch)
         /\ put_batch' = <<>>
         /\ batch_elapsed' = 0
         /\ poll_elapsed' = 0
    ELSE /\ put_batch' = batch
         /\ poll_elapsed' = 0
         /\ UNCHANGED <<db, batch_elapsed>>

\* put_batch.is_empty(): rx.recv() returns the first item of a batch
WorkerFirst ==
    /\ worker = "running"
    /\ put_batch = <<>>
    /\ channel # <<>>
    /\ put_batch' = <<Head(channel)>>
    /\ channel' = Tail(channel)
    /\ batch_elapsed' = 0
    /\ poll_elapsed' = 0
    /\ UNCHANGED <<call, db, put_batch_size, put_batch_timeout, tasks, ncalls, last,
                   storage, worker>>

\* faulty variant: the flush condition is not evaluated while items wait
WorkerRecv_Greedy(err) ==
    /\ worker = "running"
    /\ put_batch # <<>>
    /\ channel # <<>>
    /\ channel' = Tail(channel)
    /\ IF Tail(channel) # <<>>
       THEN /\ put_batch' = Append(put_batch, Head(channel))
            /\ poll_elapsed' = 0
            /\ UNCHANGED <<db, batch_elapsed>>
       ELSE EndOfIteration(Append(put_batch, Head(channel)), err)
    /\ UNCHANGED <<call, put_batch_size, put_batch_timeout, tasks, ncalls, last,
                   storage, worker>>

\* timeout(100 ms, rx.recv()) returns Ok(Some(item))
WorkerRecv(err) ==
    /\ worker = "running"
    /\ put_batch # <<>>
    /\ channel # <<>>
    /\ channel' = Tail(channel)
    /\ EndOfIteration(Append(put_batch, Head(channel)), err)
    /\ UNCHANGED <<call, put_batch_size, put_batch_timeout, tasks, ncalls, last,
                   storage, worker>>

\* timeout(100 ms, rx.recv()) returns Err(Elapsed): no item came, and the
\* sender still exists (rx.recv() would have returned None otherwise)
WorkerTimeout(err) ==
    /\ worker = "running"
    /\ storage # "dropped"
    /\ put_batch # <<>>
    /\ channel = <<>>
    /\ poll_elapsed >= POLL_TIMEOUT_MS
    /\ EndOfIteration(put_batch, err)
    /\ UNCHANGED <<call, put_batch_size, put_batch_timeout, channel, tasks, ncalls,
                   last, storage, worker>>

\* faulty variant: the worker leaves its loop whenever the channel is empty
WorkerExit_Spontaneous ==
    /\ worker = "running"
    /\ channel = <<>>
    /\ worker' = "exited"
    /\ UNCHANGED <<call, db, put_batch_size, put_batch_timeout, channel, put_batch,
                   batch_elapsed, poll_elapsed, tasks, ncalls, last, storage>>

\* faulty variant: the worker sends what it holds before it leaves its loop
WorkerExit_FlushFirst ==
    /\ worker = "running"
    /\ storage = "dropped"
    /\ channel = <<>>
    /\ worker' = "exited"
    /\ db' = WritePoints(db, put_batch)
    /\ put_batch' = <<>>
    /\ UNCHANGED <<call, put_batch_size, put_batch_timeout, channel,
                   batch_elapsed, poll_elapsed, tasks, ncalls, last, storage>>

\* rx.recv() returns None: the sender is dropped and the channel is empty.
\* The worker leaves its loop; what put_batch holds is never sent.
WorkerExit ==
    /\ worker = "running"
    /\ storage = "dropped"
    /\ channel = <<>>
    /\ worker' = "exited"
    /\ UNCHANGED <<call, db, put_batch_size, put_batch_timeout, channel, put_batch,
                   batch_elapsed, poll_elapsed, tasks, ncalls, last, storage>>

---------------------------------------------------------------------------
(* Time *)

Min(a, b) == IF a <= b THEN a ELSE b

\* the time left until a sleeping task wakes up or the worker's timeout ends
TimeLeft ==
    {DROP_MEASUREMENT_TIMEOUT_MS - tasks[i].elapsed :
        i \in {j \in DOMAIN tasks : tasks[j].pc = "sleep"}}
    \cup (IF put_batch # <<>> /\ worker = "running"
          THEN {POLL_TIMEOUT_MS - poll_elapsed} ELSE {})

\* time passes until the next instant at which something is due; an elapsed
\* time is kept up to the value beyond which nothing distinguishes it
Advance ==
    /\ \E d \in TimeLeft :
          /\ d > 0
          /\ \A e \in TimeLeft : e > 0 => d <= e
          /\ tasks' = [i \in DOMAIN tasks |->
                [tasks[i] EXCEPT !.elapsed =
                    Min(@ + d, DROP_MEASUREMENT_TIMEOUT_MS)]]
          /\ poll_elapsed' = IF put_batch # <<>> /\ worker = "running"
                             THEN Min(poll_elapsed + d, POLL_TIMEOUT_MS)
                             ELSE poll_elapsed
          /\ batch_elapsed' = IF put_batch # <<>> /\ worker = "running"
                              THEN Min(batch_elapsed + d,
                                       put_batch_timeout + POLL_TIMEOUT_MS)
                              ELSE batch_elapsed
    /\ UNCHANGED <<call, db, put_batch_size, put_batch_timeout, channel, put_batch,
                   ncalls, last, storage, worker>>

---------------------------------------------------------------------------
(* impl Drop for InfluxDbStorage *)

OnClosures == {"DropDb", "DropSeries", "DoNothing"}

\* Drop::drop: the on_closure policy of the configuration is executed (the
\* policy is fixed at creation and read here only, so it is drawn here);
\* err tells whether the DROP statement fails
drop(on_closure, err) ==
    /\ storage = "alive"
    /\ storage' = "closing"
    /\ db' = IF on_closure \in {"DropDb", "DropSeries"} /\ ~err THEN {} ELSE db
    /\ last' = [op |-> "drop", key |-> None, timestamp |-> NoCall.timestamp,
                value |-> EmptyValue,
                res |-> IF on_closure # "DoNothing" /\ err THEN "Error" ELSE "Ok",
                stmts |-> IF on_closure = "DropDb"
                          THEN <<Stmt("DROP_DATABASE", ~err)>>
                          ELSE IF on_closure = "DropSeries"
                          THEN <<Stmt("DROP_SERIES", ~err)>>
                          ELSE <<>>,
                sent |-> 0, spawned |-> 0, on_closure |-> on_closure]
    /\ UNCHANGED <<call, put_batch_size, put_batch_timeout, channel, put_batch,
                   batch_elapsed, poll_elapsed, tasks, ncalls, worker>>

\* after Drop::drop the fields are dropped, put_batch_tx among them: the
\* channel is closed
drop_fields ==
    /\ storage = "closing"
    /\ storage' = "dropped"
    /\ UNCHANGED <<call, db, put_batch_size, put_batch_timeout, channel, put_batch,
                   batch_elapsed, poll_elapsed, tasks, ncalls, last, worker>>

---------------------------------------------------------------------------
Outcomes == {"ok", "query_err", "parse_err"}

Next ==
    \/ \E key \in Keys, value \in Values, timestamp \in Timestamps,
          selErr \in BOOLEAN, wrErr \in BOOLEAN :
            put(key, value, timestamp, selErr, wrErr)
    \/ \E key \in Keys, timestamp \in Timestamps,
          delErr \in BOOLEAN, wrErr \in BOOLEAN :
            delete(key, timestamp, delErr, wrErr)
    \/ \E i \in DOMAIN tasks, outcome \in Outcomes : DropCheck(i, outcome)
    \/ \E i \in DOMAIN tasks, err \in BOOLEAN : DropStmt(i, err)
    \/ WorkerFirst
    \/ \E err \in BOOLEAN : WorkerRecv(err)
    \/ \E err \in BOOLEAN : WorkerTimeout(err)
    \/ Advance

Spec == Init /\ [][Next]_vars

---------------------------------------------------------------------------
(* Storage::get and Storage::get_all_entries *)

\* static ref INFLUX_REGEX_ALL
INFLUX_REGEX_ALL == key_exprs_to_influx_regex(<<"**">>)

\* SELECT * FROM {INFLUX_REGEX_ALL} ORDER BY time DESC LIMIT 1: the answers
\* the backend can give, each one point per measurement, a point of the
\* greatest time of the measurement. When a PUT and a DEL point of the
\* measurement both have that time, which of them comes first is the
\* backend's choice.
LatestPoints(d) ==
    LET ms == {p.m : p \in {q \in d : RegexMatches(INFLUX_REGEX_ALL, q.m)}}
        latest(m) == {p \in d : /\ p.m = m
                                 /\ \A q \in d : q.m = m => q.time <= p.time}
    IN  {{f[m] : m \in ms} :
            f \in {g \in [ms -> d] : \A m \in ms : g[m] \in latest(m)}}

\* whether get_all_entries pushes an entry for the point: the name of its
\* series is a key and its timestamp decodes
EntryReplied(zpoint) ==
    /\ keyexpr_from_serie(zpoint.m).ok
    /\ timestamp_from_str(zpoint.timestamp).ok

Entry(zpoint) ==
    [key |-> keyexpr_from_serie(zpoint.m).v,
     timestamp |-> timestamp_from_str(zpoint.timestamp).v]

\* the results get_all_entries can return when the query succeeds and its
\* result is parsed
get_all_entries(d) ==
    {{Entry(p) : p \in {q \in rows : EntryReplied(q)}} : rows \in LatestPoints(d)}

\* a call of get: the query or the parsing of its result may fail
GetCall(key, tr, qErr, parseErr) ==
    /\ storage = "alive"
    /\ ncalls < MaxCalls
    /\ ncalls' = ncalls + 1
    /\ last' = [op |-> "get", key |-> key, timestamp |-> NoCall.timestamp,
                value |-> EmptyValue,
                res |-> IF qErr \/ parseErr THEN "Error" ELSE "Ok",
                stmts |-> <<Stmt("SELECT", ~qErr)>>, sent |-> 0, spawned |-> 0,
                tr |-> tr, parsed |-> ~qErr /\ ~parseErr,
                data |-> IF qErr \/ parseErr THEN {} ELSE get(db, key, tr)]
    /\ UNCHANGED <<call, db, put_batch_size, put_batch_timeout, channel,
                   put_batch, batch_elapsed, poll_elapsed, tasks, storage,
                   worker>>

\* a call of get_all_entries
GetAllEntriesCall(qErr, parseErr) ==
    /\ storage = "alive"
    /\ ncalls < MaxCalls
    /\ ncalls' = ncalls + 1
    /\ \E entries \in get_all_entries(db) :
          last' = [op |-> "get_all_entries", key |-> None,
                   timestamp |-> NoCall.timestamp, value |-> EmptyValue,
                   res |-> IF qErr \/ parseErr THEN "Error" ELSE "Ok",
                   stmts |-> <<Stmt("SELECT", ~qErr)>>, sent |-> 0,
                   spawned |-> 0, parsed |-> ~qErr /\ ~parseErr,
                   data |-> IF qErr \/ parseErr THEN {} ELSE entries]
    /\ UNCHANGED <<call, db, put_batch_size, put_batch_timeout, channel,
                   put_batch, batch_elapsed, poll_elapsed, tasks, storage,
                   worker>>

---------------------------------------------------------------------------
(* The helper functions called on their own: a behaviour is one call of one
   helper, since none of them reads or keeps any state *)

HelperInit == Init /\ put_batch_size = None

CallClauses(time_range) ==
    /\ call = NoHelperCall
    /\ call' = [fn |-> "clauses_from_parameters", arg |-> time_range,
                ret |-> clauses_from_parameters(time_range)]
    /\ UNCHANGED <<db, put_batch_size, put_batch_timeout, channel, put_batch,
                   batch_elapsed, poll_elapsed, tasks, ncalls, last, storage,
                   worker>>

CallKeyexprFromSerie(serie_name) ==
    /\ call = NoHelperCall
    /\ call' = [fn |-> "keyexpr_from_serie", arg |-> serie_name,
                ret |-> keyexpr_from_serie(serie_name)]
    /\ UNCHANGED <<db, put_batch_size, put_batch_timeout, channel, put_batch,
                   batch_elapsed, poll_elapsed, tasks, ncalls, last, storage,
                   worker>>

CallRegex(path_exprs) ==
    /\ call = NoHelperCall
    /\ call' = [fn |-> "key_exprs_to_influx_regex", arg |-> path_exprs,
                ret |-> key_exprs_to_influx_regex(path_exprs)]
    /\ UNCHANGED <<db, put_batch_size, put_batch_timeout, channel, put_batch,
                   batch_elapsed, poll_elapsed, tasks, ncalls, last, storage,
                   worker>>

HelperNext ==
    \/ \E time_range \in ParsedRanges : CallClauses(time_range)
    \/ \E serie_name \in SerieNames : CallKeyexprFromSerie(serie_name)
    \/ \E ke \in KeyExprs : CallRegex(<<ke>>)

HelperSpec == HelperInit /\ [][HelperNext]_vars

---------------------------------------------------------------------------
(* The storage calls alone, on a storage created without batching: any     *)
(* sequence of puts and deletes, before any drop task wakes up.            *)

CallsInit == Init /\ put_batch_size = None

CallsNext ==
    \/ \E key \in Keys, value \in Values, timestamp \in Timestamps,
          selErr \in BOOLEAN, wrErr \in BOOLEAN :
            put(key, value, timestamp, selErr, wrErr)
    \/ \E key \in Keys, timestamp \in Timestamps,
          delErr \in BOOLEAN, wrErr \in BOOLEAN :
            delete(key, timestamp, delErr, wrErr)

CallsSpec == CallsInit /\ [][CallsNext]_vars

---------------------------------------------------------------------------
(* Reading back: a storage created without batching on a database that may *)
(* hold points this storage cannot decode; its puts and deletes, whose     *)
(* backend statements succeed, and its gets.                               *)

ReadKeys == {Some("a/b"), Some("a.b")}

ReadValues ==
    {Value("v1", DefaultEncoding), Value("v1", Encoding(1, "utf-8")),
     Value("#ff", DefaultEncoding)}

ReadTimestamps ==
    {[time |-> 1, id |-> 1], [time |-> 1, id |-> 2], [time |-> 2, id |-> 1]}

\* points of kind PUT that get or get_all_entries skips: a timestamp that is
\* not the string of a Timestamp, a value flagged base64 that is not base64,
\* a series whose name is not a key expression
BadTimestampPoint ==
    [PutQuery("a/b", Value("v2", DefaultEncoding), [time |-> 2, id |-> 2])
        EXCEPT !.timestamp = <<>>]

BadBase64Point ==
    [PutQuery("a/b", Value("v2", DefaultEncoding), [time |-> 1, id |-> 2])
        EXCEPT !.base64 = TRUE]

BadSeriePoint ==
    PutQuery("a*b", Value("v2", DefaultEncoding), [time |-> 1, id |-> 2])

CorruptPoints == {BadTimestampPoint, BadBase64Point, BadSeriePoint}

ReadInit ==
    /\ db \in SUBSET CorruptPoints
    /\ put_batch_size = None
    /\ put_batch_timeout \in BatchTimeouts
    /\ channel = <<>>
    /\ put_batch = <<>>
    /\ batch_elapsed = 0
    /\ poll_elapsed = 0
    /\ tasks = <<>>
    /\ ncalls = 0
    /\ last = NoCall
    /\ storage = "alive"
    /\ worker = "none"
    /\ call = NoHelperCall

ReadNext ==
    \/ \E key \in ReadKeys, value \in ReadValues, timestamp \in ReadTimestamps :
            put(key, value, timestamp, FALSE, FALSE)
    \/ \E key \in ReadKeys, timestamp \in ReadTimestamps :
            delete(key, timestamp, FALSE, FALSE)
    \/ \E key \in ReadKeys, tr \in TimeRanges,
          qErr \in BOOLEAN, parseErr \in BOOLEAN :
            GetCall(key, tr, qErr, parseErr)
    \/ \E qErr \in BOOLEAN, parseErr \in BOOLEAN :
            GetAllEntriesCall(qErr, parseErr)

ReadSpec == ReadInit /\ [][ReadNext]_vars

---------------------------------------------------------------------------
(* The batching pipeline from creation to teardown: a storage created with *)
(* put_batch_size set, the puts it enqueues, its worker, and its drop.     *)

BatchedSizes == {Some(1), Some(2), Some(3)}
BatchedTimeouts == {100, 250}
BatchedTimestamps == {ts \in Timestamps : ts.id = 1}

BatchInit ==
    /\ db = {}
    /\ put_batch_size \in BatchedSizes
    /\ put_batch_timeout \in BatchedTimeouts
    /\ channel = <<>>
    /\ put_batch = <<>>
    /\ batch_elapsed = 0
    /\ poll_elapsed = 0
    /\ tasks = <<>>
    /\ ncalls = 0
    /\ last = NoCall
    /\ storage = "alive"
    /\ worker = "running"
    /\ call = NoHelperCall

BatchNext ==
    \/ \E key \in Keys, value \in Values, timestamp \in BatchedTimestamps,
          selErr \in BOOLEAN, wrErr \in BOOLEAN :
            put(key, value, timestamp, selErr, wrErr)
    \/ WorkerFirst
    \/ \E err \in BOOLEAN : WorkerRecv(err)
    \/ \E err \in BOOLEAN : WorkerTimeout(err)
    \/ WorkerExit
    \/ Advance
    \/ \E on_closure \in OnClosures, err \in BOOLEAN : drop(on_closure, err)
    \/ drop_fields

BatchSpec == BatchInit /\ [][BatchNext]_vars

\* the worker is a spawned task of the runtime and time passes
FairBatchSpec ==
    /\ BatchSpec
    /\ WF_vars(WorkerFirst)
    /\ WF_vars(\E err \in BOOLEAN : WorkerRecv(err))
    /\ WF_vars(\E err \in BOOLEAN : WorkerTimeout(err))
    /\ WF_vars(WorkerExit)
    /\ WF_vars(Advance)

---------------------------------------------------------------------------
(* Bursts of puts: a storage created with a small put_batch_size, puts that *)
(* may all be enqueued before the worker takes the first, and the worker.   *)

BurstSizes == {Some(0), Some(1), Some(2)}

BurstInit ==
    /\ db = {}
    /\ put_batch_size \in BurstSizes
    /\ put_batch_timeout \in BatchTimeouts
    /\ channel = <<>>
    /\ put_batch = <<>>
    /\ batch_elapsed = 0
    /\ poll_elapsed = 0
    /\ tasks = <<>>
    /\ ncalls = 0
    /\ last = NoCall
    /\ storage = "alive"
    /\ worker = "running"
    /\ call = NoHelperCall

BurstNext ==
    \/ \E key \in Keys, timestamp \in BatchedTimestamps :
            PutCall(MaxPuts, key, Value("v1", DefaultEncoding), timestamp,
                    FALSE, FALSE)
    \/ WorkerFirst
    \/ \E err \in BOOLEAN : WorkerRecv(err)
    \/ \E err \in BOOLEAN : WorkerTimeout(err)
    \/ Advance

BurstSpec == BurstInit /\ [][BurstNext]_vars

---------------------------------------------------------------------------
(* Vocabulary of the properties *)

\* the timestamps of the DEL points the series of the key holds
DelTimestamps(d, key) ==
    {ParseTimestamp(p.timestamp) :
        p \in {q \in d : q.m = MeasurementOf(key) /\ q.kind = "DEL"}}

\* this step is a call of put (resp. delete) that has returned
PutReturns == ncalls' = ncalls + 1 /\ last'.op = "put"

DeleteReturns == ncalls' = ncalls + 1 /\ last'.op = "delete"

\* the step has written nothing to the backend and enqueued nothing
NothingWritten == db' = db /\ channel' = channel /\ last'.sent = 0

\* get returns the same for the key of the call before and after the step
SameGet == \A tr \in TimeRanges : get(db', last'.key, tr) = get(db, last'.key, tr)

\* the backend has answered the query of get_deletion_timestamp
CheckedDeletion == last'.stmts[1] = Stmt("SELECT_DEL", TRUE)

---------------------------------------------------------------------------
(* C1: get(K, params) never returns a PUT point with Timestamp T while K's  *)
(* series holds a DEL point whose Timestamp is >= T.                        *)
C1_NoPutUnderTombstone ==
    \A key \in Keys, tr \in TimeRanges :
        \A r \in get(db, key, tr) :
            \A t \in DelTimestamps(db, key) : ~TsLeq(r.timestamp, t)

(* C2: for T1 < T2, put(K,V,T1) then delete(K,T2) and delete(K,T2) then     *)
(* put(K,V,T1) leave get(K) returning the same result, which contains no *)
(* point with Timestamp <= T2. Stated of the two orders run from the        *)
(* current state with batching disabled and no statement failing.           *)
C2_OrderIndependent ==
    put_batch_size = None =>
        \A key \in Keys, value \in Values, t1 \in Timestamps, t2 \in Timestamps :
            TsLess(t1, t2) =>
                LET putFirst ==
                        DeleteOutcome(
                            PutOutcome(db, key, value, t1, FALSE, FALSE).db,
                            key, t2, FALSE, FALSE).db
                    deleteFirst ==
                        PutOutcome(
                            DeleteOutcome(db, key, t2, FALSE, FALSE).db,
                            key, value, t1, FALSE, FALSE).db
                IN  \A tr \in TimeRanges :
                        /\ get(putFirst, key, tr) = get(deleteFirst, key, tr)
                        /\ \A r \in get(putFirst, key, tr) : ~TsLeq(r.timestamp, t2)

(* C3: a put(K,V,T) called while K's series holds the DEL point of a        *)
(* delete(K,T_del) with T < T_del returns Outdated once the backend has     *)
(* answered the deletion query, and in every case issues no backend write,  *)
(* enqueues nothing and leaves what get(K) returns unchanged.            *)
C3_StalePutChangesNothing ==
    [][(/\ PutReturns
        /\ \E t \in DelTimestamps(db, last'.key) : TsLess(last'.timestamp, t))
       => /\ CheckedDeletion => last'.res = "Outdated"
          /\ last'.res \in {"Outdated", "Error"}
          /\ \A i \in DOMAIN last'.stmts : last'.stmts[i].q = "SELECT_DEL"
          /\ NothingWritten
          /\ SameGet]_vars

C3_Witness ==
    /\ last.op = "put"
    /\ last.res = "Outdated"
    /\ \E t \in DelTimestamps(db, last.key) : TsLess(last.timestamp, t)

C6_DeleteAfterEarlierPuts ==
    (last.op = "delete" /\ last.res = "Deleted") =>
        Pending(MeasurementOf(last.key)) = {}

(* C7: the compaction scheduled by delete(K,T) does not remove a PUT point  *)
(* with Timestamp T' > T when a put(K,V,T') with T' > T has returned        *)
(* Inserted after that delete, also when that put returns between the      *)
(* emptiness check (which succeeded) and the drop statement.                *)
C7_CompactionKeepsNewerPut ==
    [][\A i \in DOMAIN tasks :
          (/\ tasks[i].pc = "drop"
           /\ tasks[i].res = "empty"
           /\ tasks'[i].pc = "done"
           /\ tasks[i].newer)
          => \A p \in db :
                (/\ p.m = tasks[i].m
                 /\ p.kind = "PUT"
                 /\ TsLess(tasks[i].timestamp, ParseTimestamp(p.timestamp)))
                => p \in db']_vars

(* C8: after delete(K,T) returned Deleted, if no put for K with a newer     *)
(* Timestamp arrives (none has returned Inserted since, none is stored) and *)
(* the backend queries succeed, the compaction task goes on to drop the     *)
(* series, and it issues the drop only after the 5000 ms of its sleep.      *)
C8_DroppedAfterGraceDelay ==
    [][\A i \in DOMAIN tasks :
          /\ (/\ tasks[i].pc = "sleep"
              /\ tasks'[i].pc = "done"
              /\ tasks'[i].res = "kept"
              /\ ~tasks[i].newer)
             => \E p \in db :
                   /\ p.m = tasks[i].m
                   /\ p.kind = "PUT"
                   /\ TsLess(tasks[i].timestamp, ParseTimestamp(p.timestamp))
          /\ (tasks[i].pc = "drop" /\ tasks'[i].pc = "done")
             => tasks[i].elapsed >= DROP_MEASUREMENT_TIMEOUT_MS]_vars

(* C9: delete issues the DELETE of the older points first and the write of  *)
(* the DEL point second; it returns Deleted and spawns exactly one drop     *)
(* task only if both succeeded; if one fails it returns an error, issues    *)
(* nothing further and spawns no task.                                      *)
C9_DeleteSteps ==
    [][DeleteReturns =>
        LET n == Len(last'.stmts)
            measurement == MeasurementOf(last'.key)
            older == {p \in db : p.m = measurement
                                 /\ p.time < InfluxTime(last'.timestamp)}
            both == n = 2 /\ last'.stmts[1].ok /\ last'.stmts[2].ok
        IN  /\ n \in {1, 2}
            /\ last'.stmts[1].q = "DELETE"
            /\ n = 2 <=> last'.stmts[1].ok
            /\ n = 2 => last'.stmts[2].q = "WRITE_DEL"
            /\ last'.res = IF both THEN "Deleted" ELSE "Error"
            /\ Len(tasks') - Len(tasks) = IF both THEN 1 ELSE 0
            /\ last'.spawned = Len(tasks') - Len(tasks)
            /\ ~last'.stmts[1].ok => db' = db
            /\ last'.stmts[1].ok => older \cap db' = {}
            /\ DelQuery(measurement, last'.timestamp) \in db'
                  <=> (both \/ DelQuery(measurement, last'.timestamp) \in db)]_vars

C9_Witness ==
    /\ last.op = "delete"
    /\ last.res = "Error"
    /\ Len(last.stmts) = 2
    /\ last.spawned = 0

(* C10: a put or delete call that returns an error has changed nothing in   *)
(* the backend: no point removed, no point written, nothing enqueued.       *)
C10_ErrorChangesNothing ==
    [][((PutReturns \/ DeleteReturns) /\ last'.res = "Error")
       => NothingWritten]_vars

---------------------------------------------------------------------------
(* Vocabulary of the properties of the batching pipeline *)

\* the enqueued writes not yet sent, oldest first
Queue == put_batch \o channel

\* this step is the worker receiving an item while it holds a batch
Received == put_batch # <<>> /\ channel # <<>> /\ channel' = Tail(channel)

\* this step is the worker's 100 ms timeout ending without an item
TimedOut ==
    /\ put_batch # <<>>
    /\ channel = <<>>
    /\ channel' = <<>>
    /\ poll_elapsed >= POLL_TIMEOUT_MS
    /\ poll_elapsed' = 0

\* the batch the worker holds when it evaluates the flush condition
Batch == IF Received THEN Append(put_batch, Head(channel)) ELSE put_batch

\* this step is the worker sending the batch in one backend call
FlushStep == (Received \/ TimedOut) /\ FlushDue(Batch)

\* the content of the backend once it has taken the writes of a batch in
\* their order: of two writes to the same point the later one prevails
SentInOrder(d, batch) ==
    {q \in d : \A i \in DOMAIN batch : ~SamePoint(batch[i], q)}
    \cup {batch[i] : i \in {j \in DOMAIN batch :
                              \A k \in DOMAIN batch :
                                  k > j => ~SamePoint(batch[k], batch[j])}}

\* ... and the backend call has failed: nothing of the batch is written
FailedFlush == FlushStep /\ db' = db /\ SentInOrder(db, Batch) # db

(* C11: with batching enabled and batchSize = B, a batch of N < B writes    *)
(* is flushed, and only once batchTimeout has elapsed since its first       *)
(* write: the flush is one backend call with the N accumulated writes in    *)
(* enqueue order and leaves nothing accumulated (so, no write following,    *)
(* it is the only flush); as long as the storage is not dropped, every      *)
(* accumulated batch is eventually flushed.                                 *)
C11_PartialBatchFlushedOnTimeout ==
    /\ [][(FlushStep /\ Len(Batch) < put_batch_size[1])
          => /\ batch_elapsed > put_batch_timeout
             /\ db' = SentInOrder(db, Batch) \/ db' = db
             /\ put_batch' = <<>>
             /\ Queue = Batch \o Queue']_vars
    /\ (put_batch # <<>>) ~> (put_batch = <<>> \/ storage = "dropped")

C11_Witness ==
    /\ put_batch_size = Some(3)
    /\ storage = "alive"
    /\ Cardinality(db) = 2
    /\ Queue = <<>>

(* C12: the writes the worker sends are in enqueue order within a flushed   *)
(* query and across flushes, and none is sent in more than one flush: a     *)
(* put appends to the queue of unsent writes, a flush sends a prefix of     *)
(* that queue in its order and removes it, no other step changes the queue  *)
(* or writes to the backend.                                                *)
C12_FlushesAreFifo ==
    [][/\ FlushStep =>
            /\ Queue = Batch \o Queue'
            /\ db' = SentInOrder(db, Batch) \/ db' = db
       /\ ~FlushStep =>
            /\ \/ Queue' = Queue
               \/ /\ PutReturns
                  /\ Queue' = Append(Queue, PutQuery(MeasurementOf(last'.key),
                                                     last'.value, last'.timestamp))
            /\ db' = db \/ storage' # storage]_vars

C12_Witness ==
    /\ storage = "alive"
    /\ db # {}
    /\ Queue # <<>>

(* C13: when the backend call of a flush fails, the writes of the batch are *)
(* discarded (they leave the queue of unsent writes, so no later flush      *)
(* sends them), the worker keeps running, and the put calls that enqueued   *)
(* them, which had returned Inserted, are not touched.                      *)
C13_FailedFlushIsDropped ==
    [][FailedFlush =>
        /\ put_batch' = <<>>
        /\ Queue = Batch \o Queue'
        /\ worker' = "running"
        /\ last' = last
        /\ ncalls' = ncalls]_vars

C13_Witness ==
    /\ last.op = "put"
    /\ last.res = "Inserted"
    /\ storage = "alive"
    /\ worker = "running"
    /\ Queue = <<>>
    /\ db = {}

(* C14: when the enqueue side is closed while the worker holds a non-empty  *)
(* batch, the worker flushes that batch before it exits: it never exits     *)
(* with accumulated writes unsent.                                          *)
C14_AccumulatedFlushedAtClosure ==
    ~(worker = "exited" /\ put_batch # <<>>)

(* C15: with batching enabled a put that passed the stale check returns     *)
(* Inserted as soon as its write is enqueued, no backend write made; it     *)
(* returns an error only if the worker has exited, and the worker exits     *)
(* only once the storage instance is dropped.                               *)
C15_EnqueueNeverFailsWhileAlive ==
    [][/\ (/\ PutReturns
           /\ CheckedDeletion
           /\ ~Stale(last'.timestamp,
                     get_deletion_timestamp(db, MeasurementOf(last'.key))))
          => /\ db' = db
             /\ last'.res = "Error" => worker = "exited"
             /\ last'.res # "Error" =>
                   /\ last'.res = "Inserted"
                   /\ channel' = Append(channel,
                                        PutQuery(MeasurementOf(last'.key),
                                                 last'.value, last'.timestamp))
       /\ worker' = "exited" => storage' = "dropped"]_vars

C15_Witness ==
    /\ last.op = "put"
    /\ last.res = "Inserted"
    /\ put_batch_size # None
    /\ db = {}
    /\ put_batch = <<>>
    /\ channel # <<>>

(* C16: with batching disabled, a put that is not stale issues exactly one  *)
(* backend write before it returns; it returns Inserted if and only if the  *)
(* write succeeded, and an error if the write failed.                       *)
C16_UnbatchedPutReportsItsWrite ==
    [][(/\ PutReturns
        /\ put_batch_size = None
        /\ CheckedDeletion
        /\ ~Stale(last'.timestamp,
                  get_deletion_timestamp(db, MeasurementOf(last'.key))))
       => LET writes == {i \in DOMAIN last'.stmts :
                            last'.stmts[i].q = "WRITE_PUT"}
              point == PutQuery(MeasurementOf(last'.key), last'.value,
                                last'.timestamp)
          IN  /\ writes = {2}
              /\ last'.sent = 0 /\ channel' = channel
              /\ last'.res = "Inserted" <=> last'.stmts[2].ok
              /\ last'.res = "Error" <=> ~last'.stmts[2].ok
              /\ last'.stmts[2].ok => point \in db'
              /\ ~last'.stmts[2].ok => db' = db]_vars

C16_Witness ==
    /\ last.op = "put"
    /\ put_batch_size = None
    /\ last.res = "Error"
    /\ Len(last.stmts) = 2
    /\ ~last.stmts[2].ok

(* C17: for every parameter string, parsable or not, the translator         *)
(* succeeds and its clauses start with the filter kind != DEL, so get       *)
(* never returns a DEL point, whatever puts and deletes preceded.           *)
C17_GetNeverReturnsDel ==
    \A tr \in ParsedRanges :
        LET clauses == clauses_from_parameters(tr)
        IN  /\ clauses.ok
            /\ KindFilter(clauses.v)
            /\ \A key \in Keys :
                  \A p \in SelectPoints(db, MeasurementOf(key), tr) :
                      p.kind # "DEL"

C17_Witness ==
    /\ \E p \in db : p.kind = "DEL"
    /\ \E p \in db : p.kind = "PUT"
    /\ \E key \in Keys, tr \in ParsedRanges : get(db, key, tr) # {}

---------------------------------------------------------------------------
(* Vocabulary of the properties of the helper functions *)

\* the positions of s where sub occurs
Occurrences(s, sub) ==
    {i \in 1..(Len(s) - Len(sub) + 1) : SubSeq(s, i, i + Len(sub) - 1) = sub}

\* the keys a key expression denotes: "*" stands for one chunk, "**" for
\* any number of chunks, none included
RECURSIVE ChunksMatch(_, _)
ChunksMatch(expr, key) ==
    IF expr = <<>> THEN key = <<>>
    ELSE IF Head(expr) = "**"
    THEN \/ ChunksMatch(Tail(expr), key)
         \/ key # <<>> /\ ChunksMatch(expr, Tail(key))
    ELSE /\ key # <<>>
         /\ Head(expr) = "*" \/ Head(expr) = Head(key)
         /\ ChunksMatch(Tail(expr), Tail(key))

Includes(ke, key) == ChunksMatch(Split(ke), Split(key))

(* C18: the translator maps an unparsable parameter string to a              *)
(* latest-point-only clause (descending time, limit 1, no time bound); a    *)
(* fully bounded interval to exactly one lower and one upper comparison,    *)
(* with >= / <= for an inclusive bound and > / < for an exclusive one; an   *)
(* interval bounded only below to a lower comparison, no upper comparison   *)
(* and no limit.                                                            *)
C18_ClausesFollowTheTimeRange ==
    call.fn = "clauses_from_parameters" =>
        LET tr == call.arg
            c == call.ret.v
            lower == Occurrences(c, " AND time >")
            upper == Occurrences(c, " AND time <")
            latest == Occurrences(c, " ORDER BY time DESC LIMIT 1")
            unlimited == /\ Occurrences(c, "LIMIT") = {}
                         /\ Occurrences(c, "ORDER BY") = {}
        IN  /\ call.ret.ok
            /\ ~tr.ok =>
                  /\ lower = {} /\ upper = {}
                  /\ latest = {Len(c) - Len(" ORDER BY time DESC LIMIT 1") + 1}
            /\ (tr.ok /\ tr.start.b # "Unbounded" /\ tr.stop.b # "Unbounded") =>
                  Cardinality(lower) = 1 /\ Cardinality(upper) = 1
            /\ (tr.ok /\ tr.start.b = "Inclusive") =>
                  Occurrences(c, " AND time >= "
                                 \o write_timeexpr("", tr.start.t)) # {}
            /\ (tr.ok /\ tr.start.b = "Exclusive") =>
                  Occurrences(c, " AND time > "
                                 \o write_timeexpr("", tr.start.t)) # {}
            /\ (tr.ok /\ tr.stop.b = "Inclusive") =>
                  Occurrences(c, " AND time <= "
                                 \o write_timeexpr("", tr.stop.t)) # {}
            /\ (tr.ok /\ tr.stop.b = "Exclusive") =>
                  Occurrences(c, " AND time < "
                                 \o write_timeexpr("", tr.stop.t)) # {}
            /\ (tr.ok /\ tr.start.b # "Unbounded" /\ tr.stop.b = "Unbounded") =>
                  Cardinality(lower) = 1 /\ upper = {} /\ unlimited

C18_Witness ==
    /\ call.fn = "clauses_from_parameters"
    /\ call.arg.ok
    /\ call.arg.start.b = "Exclusive"
    /\ call.arg.stop.b = "Inclusive"
    /\ call.arg.start.t # call.arg.stop.t

(* C19: for every key K but the reserved one, decoding the series name put  *)
(* and delete use for K yields K; the absent key has the reserved series    *)
(* name "@@none_key@@", which decodes to the absent key; a name that is not *)
(* a valid key decodes to an error.                                         *)
C19_KeySerieRoundTrip ==
    /\ MeasurementOf(None) = "@@none_key@@"
    /\ call.fn = "keyexpr_from_serie" =>
          /\ \A key \in StorageKeys \ {Some(NONE_KEY)} :
                call.arg = MeasurementOf(key) => call.ret = Ok(key)
          /\ call.arg = "@@none_key@@" => call.ret = Ok(None)
          /\ (call.arg # "@@none_key@@" /\ ~IsKeyExpr(call.arg)) => ~call.ret.ok

C19_Witness ==
    /\ call.fn = "keyexpr_from_serie"
    /\ call.arg = MeasurementOf(Some("a/b"))
    /\ call.ret = Ok(Some("a/b"))

(* C20: the pattern built from a key expression matches exactly the keys    *)
(* the expression denotes: "*" matches within one chunk, "**" across        *)
(* chunks, none included, and the pattern is anchored at both ends.         *)
C20_PatternMatchesDenotedKeys ==
    call.fn = "key_exprs_to_influx_regex" =>
        \A key \in KeyNames :
            RegexMatches(call.ret, key) <=> Includes(call.arg[1], key)

---------------------------------------------------------------------------
(* Vocabulary of the properties of get and get_all_entries *)

\* the points of the database for which get(key, tr) pushes a StoredData
Returned(d, key, tr) ==
    {p \in SelectPoints(d, MeasurementOf(key), tr) : Replied(p)}

(* C21: get(K, params) for a single key K without wildcard returns points   *)
(* of K's own series only, never a point stored under another series name,  *)
(* also when K contains a character such as '.'.                            *)
C21_GetReadsOwnSeriesOnly ==
    \A key \in ReadKeys, tr \in TimeRanges :
        \A p \in Returned(db, key, tr) : p.m = MeasurementOf(key)

(* C22: for a key K with no prior data and Timestamps T < T', with batching *)
(* disabled: after put(K, V, T) returns Inserted, get(K, "") returns        *)
(* exactly (V, T); after a following delete(K, T') returns Deleted,         *)
(* get(K, "") returns nothing.                                              *)
C22_PutGetDeleteGet ==
    [][/\ (/\ ncalls' = ncalls + 1
           /\ last'.op = "put" /\ last'.res = "Inserted"
           /\ \A p \in db : p.m # MeasurementOf(last'.key))
          => \A tr \in TimeRanges :
                get(db', last'.key, tr)
                    = {[value |-> last'.value, timestamp |-> last'.timestamp]}
       /\ (/\ ncalls = 1 /\ ncalls' = 2
           /\ last.op = "put" /\ last.res = "Inserted"
           /\ last'.op = "delete" /\ last'.res = "Deleted"
           /\ last'.key = last.key
           /\ TsLess(last.timestamp, last'.timestamp))
          => \A tr \in TimeRanges : get(db', last'.key, tr) = {}]_vars

(* C23: get_all_entries returns at most one (key, timestamp) pair per       *)
(* series, the Timestamp of the most recent point of the series, PUT or     *)
(* DEL; hence after put(K, V, T) then delete(K, T') with T < T' it includes *)
(* (K, T') and no earlier timestamp for K.                                  *)
C23_EntriesAreLatestTimestamps ==
    [][/\ \A entries \in get_all_entries(db') :
             /\ \A e1 \in entries, e2 \in entries : e1.key = e2.key => e1 = e2
             /\ \A e \in entries :
                   \E p \in db' : /\ keyexpr_from_serie(p.m) = Ok(e.key)
                                  /\ timestamp_from_str(p.timestamp) = Ok(e.timestamp)
                                  /\ \A q \in db' : q.m = p.m => q.time <= p.time
       /\ (/\ ncalls = 1 /\ ncalls' = 2
           /\ last.op = "put" /\ last.res = "Inserted"
           /\ db = {PutQuery(MeasurementOf(last.key), last.value, last.timestamp)}
           /\ last'.op = "delete" /\ last'.res = "Deleted"
           /\ last'.key = last.key
           /\ TsLess(last.timestamp, last'.timestamp))
          => \A entries \in get_all_entries(db') :
                /\ [key |-> last'.key, timestamp |-> last'.timestamp] \in entries
                /\ \A e \in entries :
                      e.key = last'.key => ~TsLess(e.timestamp, last'.timestamp)]_vars

(* C24: for every payload, valid UTF-8 or not, a get that returns the point *)
(* written by put(K, V, T) returns a value whose payload and encoding are   *)
(* those of V.                                                              *)
C24_ValueRoundTrip ==
    (last.op = "put" /\ last.res = "Inserted") =>
        LET point == PutQuery(MeasurementOf(last.key), last.value, last.timestamp)
        IN  (point \in db /\ Replied(point)) =>
                /\ StoredData(point).value.payload = last.value.payload
                /\ StoredData(point).value.encoding = last.value.encoding

(* C25: teardown executes the on_closure policy and its effect is final:    *)
(* with drop_series or drop_db, once teardown and the worker have finished, *)
(* the backend holds no series written by this storage, whatever the worker *)
(* still held at teardown; with do_nothing teardown issues no statement and *)
(* leaves the data untouched.                                               *)
C25_TeardownIsFinal ==
    [][/\ (/\ last'.op = "drop" /\ last'.res = "Ok"
           /\ last'.on_closure \in {"DropDb", "DropSeries"}
           /\ storage' = "dropped" /\ worker' = "exited")
          => db' = {}
       /\ (storage = "alive" /\ storage' = "closing"
           /\ last'.on_closure = "DoNothing")
          => db' = db /\ last'.stmts = <<>>]_vars

(* C27: the compaction task issues the DROP of a series only when its       *)
(* emptiness check completed successfully and reported no point of kind     *)
(* other than DEL; after a check whose query failed or whose result could   *)
(* not be decoded, it issues no DROP.                                       *)
C27_DropOnlyAfterSuccessfulCheck ==
    \A i \in DOMAIN tasks : tasks[i].pc = "drop" => tasks[i].res = "empty"

\* a point whose series name is a key, whose payload is base64 when it is
\* flagged so, and whose timestamp is the string of a Timestamp
Decodable(p) ==
    /\ p.m = NONE_KEY \/ IsKeyExpr(p.m)
    /\ p.base64 => (Len(p.value) >= 4 /\ SubSeq(p.value, 1, 4) = "b64:")
    /\ Len(p.timestamp) = 2

\* a point whose series name is a key and whose timestamp is the string of
\* a Timestamp
DecodableEntry(p) ==
    /\ p.m = NONE_KEY \/ IsKeyExpr(p.m)
    /\ Len(p.timestamp) = 2

(* C26: in get and get_all_entries a point of the query result whose        *)
(* timestamp or base64 payload cannot be decoded, or whose series name is   *)
(* not a key, is skipped, and every other point of the result is returned;  *)
(* the call fails only when the query fails or its result is not parsed.    *)
C26_CorruptPointsAreSkipped ==
    /\ last.op \in {"get", "get_all_entries"} =>
          (last.res = "Error" <=> (~last.stmts[1].ok \/ ~last.parsed))
    /\ (last.op = "get" /\ last.res = "Ok") =>
          LET rows == SelectPoints(db, MeasurementOf(last.key), last.tr)
          IN  /\ \A p \in rows :
                    Decodable(p) =>
                        \E r \in last.data :
                            /\ r.timestamp = ParseTimestamp(p.timestamp)
                            /\ r.value.payload
                                 = IF p.base64
                                   THEN SubSeq(p.value, 5, Len(p.value))
                                   ELSE p.value
              /\ \A r \in last.data :
                    \E p \in rows : /\ Decodable(p)
                                    /\ r.timestamp = ParseTimestamp(p.timestamp)
    /\ (last.op = "get_all_entries" /\ last.res = "Ok") =>
          \E rows \in LatestPoints(db) :
              /\ \A p \in rows :
                    DecodableEntry(p) =>
                        [key |-> IF p.m = NONE_KEY THEN None ELSE Some(p.m),
                         timestamp |-> ParseTimestamp(p.timestamp)] \in last.data
              /\ \A e \in last.data :
                    \E p \in rows : /\ DecodableEntry(p)
                                    /\ MeasurementOf(e.key) = p.m
                                    /\ e.timestamp = ParseTimestamp(p.timestamp)

C26_Witness ==
    /\ last.op = "get" /\ last.res = "Ok"
    /\ last.data # {}
    /\ LET rows == SelectPoints(db, MeasurementOf(last.key), last.tr)
       IN  /\ \E p \in rows : Len(p.timestamp) # 2
           /\ \E p \in rows : p.base64 /\ ~Decodable(p)
           /\ \E p \in rows : ~IsKeyExpr(p.m)

(* C28: after deletes on K, in any arrival order and also when their        *)
(* Timestamps share the backend time and differ in the node id only, and    *)
(* before compaction, the deletion Timestamp put compares against is the    *)
(* greatest Timestamp of the deletes recorded for K. Stated for the first   *)
(* two calls of a storage, both deletes of K that return Deleted.           *)
C28_DeletionTimestampIsGreatest ==
    [][(/\ ncalls = 1 /\ ncalls' = 2
        /\ last.op = "delete" /\ last.res = "Deleted"
        /\ last'.op = "delete" /\ last'.res = "Deleted"
        /\ last'.key = last.key)
       => get_deletion_timestamp(db', MeasurementOf(last'.key))
            = Some(IF TsLess(last.timestamp, last'.timestamp)
                   THEN last'.timestamp ELSE last.timestamp)]_vars

---------------------------------------------------------------------------
(* More vocabulary of the properties of the batching pipeline *)

\* this step is the worker sending its batch and clearing it
Flushed == (Received \/ TimedOut) /\ put_batch' = <<>>

(* C29: the worker issues a backend write only for a non-empty batch and    *)
(* only when the batch length is >= batchSize or the time elapsed since the *)
(* first item of the batch exceeds batchTimeout; a flush sends the whole    *)
(* accumulated batch in one call and leaves the batch empty, and the clock  *)
(* of the timeout restarts at the first item of the next batch.             *)
C29_FlushOnlyWhenDue ==
    [][/\ Flushed =>
            /\ Len(Batch) >= 1
            /\ \/ Len(Batch) >= put_batch_size[1]
               \/ batch_elapsed > put_batch_timeout
            /\ db' = SentInOrder(db, Batch) \/ db' = db
            /\ Queue = Batch \o Queue'
       /\ (db' # db /\ storage' = storage) => Flushed
       /\ (put_batch = <<>> /\ put_batch' # <<>>) =>
            /\ Len(put_batch') = 1
            /\ batch_elapsed' = 0]_vars

C29_Witness ==
    /\ storage = "alive"
    /\ db # {}
    /\ Len(put_batch) = 1
    /\ batch_elapsed = 0

(* C30: every batch the worker flushes contains at least 1 and at most      *)
(* max(batchSize, 2) writes; for batchSize >= 2 a flushed batch never       *)
(* contains more than batchSize writes, however fast writes are enqueued.   *)
C30_FlushedBatchIsBounded ==
    [][Flushed =>
        /\ Len(Batch) >= 1
        /\ Len(Batch) <= (IF put_batch_size[1] >= 2 THEN put_batch_size[1] ELSE 2)
        /\ put_batch_size[1] >= 2 => Len(Batch) <= put_batch_size[1]]_vars

C30_Witness ==
    /\ put_batch_size = Some(2)
    /\ ncalls = 3
    /\ db # {}
    /\ Len(Queue) = 1

(* C31: once the storage instance is dropped and the channel closed, the    *)
(* worker terminates after it has consumed the items still queued: it       *)
(* leaves its loop only on an empty channel, it does eventually, and it     *)
(* sends nothing to the backend when it observes the closure or after.      *)
C31_WorkerTerminatesAtClosure ==
    /\ [][/\ (worker = "running" /\ worker' = "exited") =>
                /\ storage = "dropped"
                /\ channel = <<>>
                /\ db' = db
                /\ put_batch' = put_batch
          /\ worker = "exited" =>
                /\ worker' = "exited"
                /\ db' = db
                /\ put_batch' = put_batch
                /\ channel' = channel]_vars
    /\ (storage = "dropped") ~> (worker = "exited")

C31_Witness ==
    /\ worker = "exited"
    /\ storage = "dropped"
    /\ last.op = "drop"
    /\ last.on_closure = "DoNothing"
    /\ db # {}
    /\ put_batch # <<>>

---------------------------------------------------------------------------
(* Vocabulary of the properties of delete on newer data *)

\* the PUT points of the key's series whose Timestamp is greater than timestamp
NewerPuts(d, key, timestamp) ==
    {p \in d : /\ p.m = MeasurementOf(key)
               /\ p.kind = "PUT"
               /\ TsLess(timestamp, ParseTimestamp(p.timestamp))}

\* what get returns stays returned, as far as its Timestamp is greater
StillVisible(key, timestamp) ==
    \A tr \in TimeRanges :
        \A r \in get(db, key, tr) :
            TsLess(timestamp, r.timestamp) => r \in get(db', key, tr)

(* C32: with batching disabled, a delete(K, T) that returns Deleted never   *)
(* removes or hides a PUT point of K whose Timestamp is greater than T:     *)
(* not by the call itself, which returns Deleted although it is older than  *)
(* the data, and not by the compaction it schedules; get(K) still returns   *)
(* the newer value.                                                         *)
C32_DeleteKeepsNewerPuts ==
    [][/\ (/\ put_batch_size = None
           /\ ncalls' = ncalls + 1
           /\ last'.op = "delete" /\ last'.res = "Deleted")
          => /\ NewerPuts(db, last'.key, last'.timestamp) \subseteq db'
             /\ StillVisible(last'.key, last'.timestamp)
       /\ (/\ put_batch_size = None
           /\ last.op = "delete" /\ last.res = "Deleted"
           /\ last' = last)
          => /\ NewerPuts(db, last.key, last.timestamp) \subseteq db'
             /\ StillVisible(last.key, last.timestamp)]_vars

====
